---- MODULE Spec2Model ----
(***************************************************************************)
(* A model of the @bhar2254/mysql package: the SQLObject record object     *)
(* (mysql-object.js), the query builders and the executor                  *)
(* (mysql-helper.js) and cacheFetch (mysql-extensions.js), over a model of *)
(* one MySQL table.                                                        *)
(*                                                                         *)
(* JavaScript values are written as strings:                               *)
(*   Undefined, Null      the values undefined and null                    *)
(*   "#0", "#1", ...      the numbers 0, 1, ...                            *)
(*   False, True          the booleans                                     *)
(*   anything else        that string                                      *)
(* A row object is a function from its own keys to values; an absent key   *)
(* reads as Undefined.  An optional reference (a field that may hold       *)
(* undefined) is a sequence of length 0 or 1.                              *)
(***************************************************************************)
EXTENDS Integers, Sequences, FiniteSets, TLC

VARIABLES
    obj,        \* the SQLObject instances: instance -> fields
    db,         \* the table: [name, order, cols, rows, nextId]
    call,       \* the most recent call: [op, args, F, pre, ret, threw, log, created, ended]
    stats,      \* counted over all calls: pools created and ended, schema queries
    ops,        \* number of public calls made so far
    pc,         \* readOrCreate in progress, per instance (interleaved runs)
    resp,       \* readOrCreate in progress: [datum, first, inserted] per instance
    retry,      \* executeQueryWithRetry in progress
    web         \* cacheFetch: HTTP GETs issued, [gets, last]

vars == <<obj, db, call, stats, ops, pc, resp, retry, web>>

----------------------------------------------------------------------------
(* Bounds of the model *)

MaxOps == 2          \* public calls per behaviour, healthy environment
MaxFaultyOps == 1    \* public calls per behaviour, faulty environment
MaxRows == 2         \* rows the table may hold
MaxRetries == 3      \* largest retries argument tried

----------------------------------------------------------------------------
(* JavaScript values *)

Undefined == "<undefined>"
Null == "<null>"

NumStr == <<"0", "1", "2", "3", "4", "5", "6">>

\* the number n as a value
Num(n) == "#" \o NumStr[n + 1]

Numbers == {Num(n) : n \in 0..(Len(NumStr) - 1)}

\* the booleans, where they are values of an object's keys
False == "<false>"
True == "<true>"

\* ToBoolean(v), for the values of the model
Truthy(v) == v \notin {Undefined, Null, False, "", Num(0)}

\* String(v), as a template literal `${v}` renders it
Str(v) ==
    IF v = Undefined THEN "undefined"
    ELSE IF v = Null THEN "null"
    ELSE IF \E n \in 0..(Len(NumStr) - 1) : v = Num(n)
         THEN NumStr[(CHOOSE n \in 0..(Len(NumStr) - 1) : v = Num(n)) + 1]
    ELSE v

\* a || b
Or(a, b) == IF Truthy(a) THEN a ELSE b

EmptyRow == [k \in {} |-> Undefined]

\* row[k]
Get(row, k) == IF k \in DOMAIN row THEN row[k] ELSE Undefined

\* keys that start with '_'
Underscored(k) == k \in {"_tmp"}

----------------------------------------------------------------------------
(* SQLObject: fields and accessors (mysql-object.js) *)

\* an instance before the constructor has assigned anything.  The field
\* override is history: datum has been assigned from outside (or by the
\* constructor's own this.datum = datum) since data was last assigned.
Blank ==
    [table |-> Undefined, data |-> <<>>, datum |-> <<>>, key |-> Undefined,
     id |-> Undefined, all |-> FALSE, properties |-> <<>>,
     initialized |-> FALSE, read |-> FALSE, last |-> <<>>, override |-> FALSE]

\* get data()
GetData(o) ==
    IF Len(o.data) > 0 THEN o.data[1]
    ELSE IF Len(o.datum) > 0 THEN <<o.datum[1]>>
    ELSE <<>>

\* get datum()
GetDatum(o) ==
    IF Len(o.datum) > 0 THEN o.datum[1]
    ELSE IF Len(GetData(o)) > 0 THEN GetData(o)[1]
    ELSE EmptyRow

\* set datum(value); value is an optional row
SetDatum(o, value) == [o EXCEPT !.datum = value]

\* a data setter that would leave datum as it was
SetDataKeepsDatum(o, value) ==
    IF value.isArray
    THEN [o EXCEPT !.data = <<value.arr>>, !.override = FALSE]
    ELSE o

\* set data(value); value is [isArray, arr]
SetData(o, value) ==
    IF value.isArray
    THEN SetDatum([o EXCEPT !.data = <<value.arr>>, !.override = FALSE],
                  IF Len(value.arr) > 0 THEN <<value.arr[1]>> ELSE <<>>)
    ELSE o

Arr(rows) == [isArray |-> TRUE, arr |-> rows]
NotArr == [isArray |-> FALSE, arr |-> <<>>]

\* get id()
GetId(o) ==
    IF Len(GetData(o)) > 0
    THEN Or(Get(GetData(o)[1], o.key), o.id)
    ELSE Null

SetId(o, value) == [o EXCEPT !.id = value]
SetKey(o, value) == [o EXCEPT !.key = value]

\* get properties()
GetProperties(o) == IF Len(o.properties) > 0 THEN o.properties[1] ELSE EmptyRow

\* set last(value)
SetLast(o, query, response) == [o EXCEPT !.last = <<[query |-> query, response |-> response]>>]

\* constructor(args): args holds the keys the caller passed
Constructor(args) ==
    LET table == IF "table" \in DOMAIN args THEN args.table ELSE Null
        data == IF "data" \in DOMAIN args THEN args.data ELSE Arr(<<EmptyRow>>)
        datum == IF "datum" \in DOMAIN args THEN args.datum ELSE <<EmptyRow>>
        key == IF "key" \in DOMAIN args THEN args.key ELSE "guid"
        id == IF "id" \in DOMAIN args THEN args.id ELSE Null
        all == IF "all" \in DOMAIN args THEN args.all ELSE FALSE
        o1 == SetData([Blank EXCEPT !.table = table], data)
        o2 == SetDatum(o1, datum)
        o3 == SetKey(o2, key)
        o4 == SetId(o3, id)
    IN  [o4 EXCEPT !.all = all, !.override = TRUE]

----------------------------------------------------------------------------
(* Query builders (mysql-helper.js).  A statement is kept as its parts:    *)
(*   op     "schema", "select", "insert", "update" or "delete"             *)
(*   table  the table named after FROM / INTO / UPDATE                     *)
(*   row    the columns and values of the column list or the SET list      *)
(*   where  the filter: <<>> for none, else <<[key, lit]>> for             *)
(*          WHERE key = "lit"                                              *)
(*   bad    the text is not a well-formed statement                        *)

Stmt(op, table, row, where, bad) ==
    [op |-> op, table |-> table, row |-> row, where |-> where, bad |-> bad]

\* values whose text holds a double quote
HasQuote(v) == v \in {"{\"a\":1}"}

\* the query of getPropertiesFromDB
PropertiesQuery(table) == Stmt("schema", table, EmptyRow, <<>>, FALSE)

\* the names every object inherits from Object.prototype
Inherited == {"constructor"}

\* object[k] of an object made by {}: an own key, else an inherited one
Lookup(object, k) ==
    IF k \in DOMAIN object THEN object[k]
    ELSE IF k \in Inherited THEN "<function>"
    ELSE Undefined

\* buildInsertQuery(table, data, properties, safe): <<>> for null
buildInsertQuery(table, data, properties, safe) ==
    LET elements == {k \in DOMAIN data :
                        /\ ~Underscored(k)
                        /\ Truthy(Lookup(properties, k))
                        /\ Truthy(data[k])}
    IN  IF elements = {} THEN <<>>
        ELSE <<Stmt("insert", table, [k \in elements |-> data[k]], <<>>,
                    ~safe /\ \E k \in elements : HasQuote(data[k]))>>

\* an UPDATE builder that would keep the keys that start with '_'
buildUpdateQueryKeepsMarked(table, datum, properties, id, key, all) ==
    LET setValues == {k \in DOMAIN datum :
                        /\ datum[k] # Undefined
                        /\ datum[k] # Null
                        /\ datum[k] # "undefined"
                        /\ datum[k] # "null"
                        /\ k \in DOMAIN properties}
        whereClause == IF ~all THEN <<[key |-> key, lit |-> Str(id)]>> ELSE <<>>
    IN  IF setValues = {} THEN <<>>
        ELSE <<Stmt("update", table, [k \in setValues |-> datum[k]], whereClause, FALSE)>>

\* buildUpdateQuery(table, datum, properties, id, key, all): <<>> for null
buildUpdateQuery(table, datum, properties, id, key, all) ==
    LET setValues == {k \in DOMAIN datum :
                        /\ ~Underscored(k)
                        /\ datum[k] # Undefined
                        /\ datum[k] # Null
                        /\ datum[k] # "undefined"
                        /\ datum[k] # "null"
                        /\ k \in DOMAIN properties}
        whereClause == IF ~all THEN <<[key |-> key, lit |-> Str(id)]>> ELSE <<>>
    IN  IF setValues = {} THEN <<>>
        ELSE <<Stmt("update", table, [k \in setValues |-> datum[k]], whereClause, FALSE)>>

\* the options of buildSelectQuery: where is <<>> when the caller gives none,
\* else <<conditions>>, the conditions being the keys of the where object
\* in order with their texts, [key |-> x, lit |-> v] for x: '= "v"'
NoArgs == [where |-> <<>>]
Where(conditions) == [where |-> <<conditions>>]

\* the columns that get a DATE_FORMAT projection
TimeColumns(properties) ==
    {k \in DOMAIN properties : properties[k] \in {"date", "datetime"}}

\* a filter that would name key and id even when all is set
WhereStmtAlways(id, key, all, args) ==
    IF Len(args.where) > 0 THEN [keyword |-> FALSE, conditions |-> args.where[1]]
    ELSE [keyword |-> TRUE, conditions |-> <<[key |-> key, lit |-> Str(id)]>>]

\* whereStmt: [keyword, conditions]; keyword tells that the text begins with
\* " WHERE ".  The conditions of a where option are joined with ' AND ' and
\* nothing is put before them.
WhereStmt(id, key, all, args) ==
    IF Len(args.where) > 0 THEN [keyword |-> FALSE, conditions |-> args.where[1]]
    ELSE IF all THEN [keyword |-> FALSE, conditions |-> <<>>]
    ELSE [keyword |-> TRUE, conditions |-> <<[key |-> key, lit |-> Str(id)]>>]

\* `SELECT *... FROM ${table}${whereStmt}...;`: conditions that follow the
\* table name with no keyword between do not make a statement
SelectText(table, whereStmt) ==
    Stmt("select", table, EmptyRow, whereStmt.conditions,
         Len(whereStmt.conditions) > 0 /\ ~whereStmt.keyword)

\* buildSelectQuery(table, properties, id, key, all, args): [threw, stmt].
\* The projection of a date or datetime column reads date_format or
\* datetime_format, names that nothing declares: a ReferenceError.
buildSelectQuery(table, properties, id, key, all, args) ==
    IF TimeColumns(properties) # {} THEN [threw |-> TRUE, stmt |-> <<>>]
    ELSE [threw |-> FALSE,
          stmt |-> <<SelectText(table, WhereStmt(id, key, all, args))>>]

\* buildDeleteQuery(table, id)
buildDeleteQuery(table, id) ==
    Stmt("delete", table, EmptyRow, <<[key |-> "guid", lit |-> Str(id)]>>, FALSE)

----------------------------------------------------------------------------
(* The MySQL server, for one table: what pool.query(str) answers.          *)
(* db = [name, order, cols, rows, nextId]: order lists the columns, cols   *)
(* maps each column to its type, rows are functions over the columns,      *)
(* nextId is the AUTO_INCREMENT counter of the column id (when the table   *)
(* has one).                                                               *)

\* does WHERE key = "lit" select this row
Matches(row, where) ==
    \/ Len(where) = 0
    \/ /\ row[where[1].key] # Null
       /\ Str(row[where[1].key]) = where[1].lit

SelectRows(rows, where) == SelectSeq(rows, LAMBDA r : Matches(r, where))

\* the statement is one the server rejects
Rejected(d, stmt) ==
    \/ stmt.bad
    \/ stmt.op # "schema" /\ stmt.table # d.name
    \/ Len(stmt.where) > 0 /\ stmt.where[1].key \notin DOMAIN d.cols
    \/ \E k \in DOMAIN stmt.row : k \notin DOMAIN d.cols

AutoId(d) == "id" \in DOMAIN d.cols /\ d.cols["id"] = "int"

\* a response: the rows of a SELECT, or the insertId of an INSERT
Rows(rows) == [rows |-> rows, insertId |-> Undefined]
Ok(insertId) == [rows |-> <<>>, insertId |-> insertId]

\* a table that would keep one row per guid, ignoring the INSERT of another
InsertRowOnce(rows, new) ==
    IF \E k \in 1..Len(rows) : rows[k].guid = new.guid THEN rows ELSE Append(rows, new)

\* the rows of a table after an INSERT of new: no column is unique
InsertRow(rows, new) == Append(rows, new)

\* [db, response] of a statement the server accepts
Serve(d, stmt) ==
    CASE stmt.op = "schema" ->
            [db |-> d,
             response |-> Rows(IF stmt.table = d.name
                               THEN [i \in 1..Len(d.order) |->
                                        [COLUMN_NAME |-> d.order[i],
                                         DATA_TYPE |-> d.cols[d.order[i]]]]
                               ELSE <<>>)]
      [] stmt.op = "select" ->
            [db |-> d, response |-> Rows(SelectRows(d.rows, stmt.where))]
      [] stmt.op = "insert" ->
            LET gen == AutoId(d) /\ "id" \notin DOMAIN stmt.row
                new == [c \in DOMAIN d.cols |->
                            IF c \in DOMAIN stmt.row THEN stmt.row[c]
                            ELSE IF c = "id" /\ gen THEN Num(d.nextId)
                            ELSE Null]
            IN  [db |-> [d EXCEPT !.rows = InsertRow(@, new),
                                  !.nextId = IF gen THEN @ + 1 ELSE @],
                 response |-> Ok(IF gen THEN Num(d.nextId) ELSE Num(0))]
      [] stmt.op = "update" ->
            [db |-> [d EXCEPT !.rows =
                        [i \in 1..Len(@) |->
                            IF Matches(@[i], stmt.where)
                            THEN [c \in DOMAIN d.cols |->
                                    IF c \in DOMAIN stmt.row THEN stmt.row[c] ELSE @[i][c]]
                            ELSE @[i]]],
             response |-> Ok(Num(0))]
      [] stmt.op = "delete" ->
            [db |-> [d EXCEPT !.rows = SelectSeq(@, LAMBDA r : ~Matches(r, stmt.where))],
             response |-> Ok(Num(0))]

----------------------------------------------------------------------------
(* The executor (mysql-helper.js).  A call runs in a context               *)
(*   cx = [db, n, F, log, created, ended]                                  *)
(* db is the table, n counts the statements the call has handed to the     *)
(* executor, F holds the ordinals of the statements that the environment   *)
(* fails (connection lost, server gone), log lists the statements handed   *)
(* over with the instance's flags at that time, created and ended count    *)
(* the pools the call created and ended.                                   *)

Context(d, F) == [db |-> d, n |-> 0, F |-> F, log |-> <<>>, created |-> 0, ended |-> 0]

\* a statement is handed to the executor: a pool is created
Handed(cx, str) ==
    [cx EXCEPT !.n = @ + 1, !.created = @ + 1,
               !.log = Append(@, [stmt |-> str, ok |-> FALSE,
                                  loaded |-> FALSE, initialized |-> FALSE,
                                  key |-> Undefined, id |-> Undefined, all |-> FALSE])]

\* pool.query(str) resolved with s = [db, response]: pool.end() is called
Resolved(cx, s) ==
    [cx |-> [cx EXCEPT !.db = s.db, !.ended = @ + 1, !.log[cx.n].ok = TRUE],
     threw |-> FALSE, response |-> s.response]

\* queryPromise(str): [cx, threw, response]
queryPromise(cx, str) ==
    IF (cx.n + 1) \in cx.F \/ Rejected(cx.db, str)
    THEN \* pool.query rejects: pool.end() is not reached
         [cx |-> Handed(cx, str), threw |-> TRUE, response |-> Rows(<<>>)]
    ELSE Resolved(Handed(cx, str), Serve(cx.db, str))

\* the log entry of the statement just handed over notes the flags, key, id
\* and all of the instance whose method handed it over
Noted(o, q) ==
    [q EXCEPT !.cx.log[q.cx.n].loaded = Len(o.properties) > 0,
              !.cx.log[q.cx.n].initialized = o.initialized,
              !.cx.log[q.cx.n].key = o.key,
              !.cx.log[q.cx.n].id = GetId(o),
              !.cx.log[q.cx.n].all = o.all]

\* queryPromise called by a method of the instance o
Query(o, cx, str) == Noted(o, queryPromise(cx, str))

\* the property map of getPropertiesFromDB, from the rows of its query
PropertiesOf(response) ==
    [c \in {response[i].COLUMN_NAME : i \in 1..Len(response)} |->
        Or(response[CHOOSE i \in 1..Len(response) : response[i].COLUMN_NAME = c].DATA_TYPE,
           "undefined")]

\* getPropertiesFromDB, given what its query answered
PropertiesFrom(q) ==
    [cx |-> q.cx, threw |-> q.threw, properties |-> PropertiesOf(q.response.rows)]

\* getPropertiesFromDB(table): [cx, threw, properties]
getPropertiesFromDB(cx, table) == PropertiesFrom(queryPromise(cx, PropertiesQuery(table)))

\* executeQueryWithRetry(query, retries): the call is kept as
\*   [pc, query, retries, attempt, lastError, trace, result, error]
\* pc is "loop" at the while test, "returned" or "raised" when the call is
\* over; trace lists what each execute answered; result is what the call
\* returned (<<>> for undefined); error is what it raised.
DefaultRetries == 3

\* the call begins: retries is <<>> when the caller passes none
RetryEnter(query, retries) ==
    [pc |-> "loop", query |-> query,
     retries |-> IF Len(retries) = 0 THEN DefaultRetries ELSE retries[1],
     attempt |-> 0, lastError |-> Null, trace |-> <<>>, result |-> <<>>, error |-> <<>>]

\* while (attempt < retries)
RetryTest(r) == r.attempt < r.retries

\* return await queryPromise(query)
RetryReturn(r, response) ==
    [r EXCEPT !.pc = "returned", !.result = <<response>>,
              !.trace = Append(@, [ok |-> TRUE, response |-> response, message |-> ""])]

\* a test that would allow one attempt more
RetryExhaustedLate(attempt, retries) == attempt > retries

\* the throw of the catch block is reached
RetryExhausted(attempt, retries) == attempt >= retries

\* catch (error): attempt++; lastError = error; throw when attempt >= retries
RetryCatch(r, message) ==
    [r EXCEPT !.attempt = @ + 1, !.lastError = message,
              !.trace = Append(@, [ok |-> FALSE, response |-> Rows(<<>>),
                                   message |-> message]),
              !.pc = IF RetryExhausted(r.attempt + 1, r.retries) THEN "raised" ELSE "loop",
              !.error = IF RetryExhausted(r.attempt + 1, r.retries)
                        THEN <<[attempts |-> r.retries, message |-> message]>>
                        ELSE @]

\* the while test fails: the function ends without a return statement
RetryFallThrough(r) == [r EXCEPT !.pc = "returned", !.result = <<>>]

\* one pass of the loop body, given what queryPromise did and the message of
\* the error it raised
RetryPass(r, q, message) ==
    IF q.threw THEN RetryCatch(r, message) ELSE RetryReturn(r, q.response)

----------------------------------------------------------------------------
(* The methods of SQLObject.  Each yields [o, cx, ret, threw]: the         *)
(* instance and the context after the call, what it returned, and whether  *)
(* it raised instead.  ret = [kind, response]: kind is "zero" (0),         *)
(* "undefined", "one" (1), "rows" (a row array), "response" (an executor   *)
(* response) or "properties".  A method is written as its steps, each      *)
(* taking what the step before it awaited.                                 *)

Out(o, cx, kind, response, threw) ==
    [o |-> o, cx |-> cx, ret |-> [kind |-> kind, response |-> response], threw |-> threw]

Raise(o, cx) == Out(o, cx, "undefined", Rows(<<>>), TRUE)

Falsy(ret) == ret.kind \in {"zero", "undefined"}

\* initialize(), after getPropertiesFromDB: this.properties = properties
Loaded(o, p) ==
    IF p.threw THEN Raise(o, p.cx)
    ELSE Out([o EXCEPT !.properties = <<p.properties>>], p.cx,
             "properties", Rows(<<>>), FALSE)

\* initialize()
initialize(o, cx) ==
    IF o.initialized THEN Out(o, cx, "properties", Rows(<<>>), FALSE)
    ELSE Loaded(o, getPropertiesFromDB(cx, o.table))

\* if (!this.initialized) await this.initialize()
EnsureInitialized(o, cx) ==
    IF ~o.initialized THEN initialize(o, cx)
    ELSE Out(o, cx, "properties", Rows(<<>>), FALSE)

\* a read that would empty data when it fetched no row
ReadDoneClears(o, query, q) ==
    IF q.threw THEN Raise(o, q.cx)
    ELSE Out([SetLast(SetData(o, Arr(q.response.rows)), query, q.response)
                 EXCEPT !.read = Len(q.response.rows) > 0],
             q.cx, IF Len(q.response.rows) = 0 THEN "zero" ELSE "rows", q.response, FALSE)

\* read(), after its query
ReadDone(o, query, q) ==
    IF q.threw THEN Raise(o, q.cx)
    ELSE IF Len(q.response.rows) = 0
    THEN Out(SetLast(o, query, q.response), q.cx, "zero", q.response, FALSE)
    ELSE Out([SetLast(SetDatum(SetData(o, Arr(q.response.rows)),
                               <<q.response.rows[1]>>),
                      query, q.response) EXCEPT !.read = TRUE],
             q.cx, "rows", q.response, FALSE)

\* read(), from its query on
ReadQuery(o, cx, query) == ReadDone(o, query, Query(o, cx, query))

\* read(), after buildSelectQuery
ReadBuilt(i, b) ==
    IF b.threw THEN Raise(i.o, i.cx) ELSE ReadQuery(i.o, i.cx, b.stmt[1])

\* read(), after initialization; args = {}
ReadInitialized(i) ==
    IF i.threw THEN i
    ELSE ReadBuilt(i, buildSelectQuery(i.o.table, GetProperties(i.o), GetId(i.o),
                                       i.o.key, i.o.all, NoArgs))

\* read()
read(o, cx) == ReadInitialized(EnsureInitialized(o, cx))

\* create(), after the read that follows the INSERT
CreateRead(response, r) ==
    IF r.threw THEN Out(r.o, r.cx, "undefined", Rows(<<>>), FALSE)
    ELSE Out(r.o, r.cx, "response", response, FALSE)

\* create(), after its INSERT
CreateDone(o, query, q) ==
    IF q.threw THEN Out(o, q.cx, "undefined", Rows(<<>>), FALSE)
    ELSE CreateRead(q.response,
                    read(SetLast(SetId(SetKey(o, "id"), q.response.insertId),
                                 query, q.response),
                         q.cx))

\* create(), from buildInsertQuery on; o holds the filtered row
CreateQuery(o, cx, query) ==
    IF Len(query) = 0 THEN Out(o, cx, "zero", Rows(<<>>), FALSE)
    ELSE CreateDone(o, query[1], Query(o, cx, query[1]))

\* create(), the filtered row: this.datum = create; this.data = [create]
CreateRow(o, cx, row, safe) ==
    CreateQuery(SetData(SetDatum(o, <<row>>), Arr(<<row>>)), cx,
                buildInsertQuery(o.table, row, GetProperties(o), safe))

\* create(), after initialization
CreateInitialized(i, args) ==
    IF i.threw THEN i
    ELSE IF Len(args) = 0
    THEN \* const { safe = true } = args: a TypeError
         Raise(i.o, i.cx)
    ELSE CreateRow(i.o, i.cx,
                   [k \in {k \in DOMAIN GetProperties(i.o) : Truthy(Get(args[1], k))} |->
                        args[1][k]],
                   IF Get(args[1], "safe") = Undefined THEN TRUE
                   ELSE Truthy(args[1].safe))

\* create(args); args is <<>> when the caller passes none
create(o, cx, args) == CreateInitialized(EnsureInitialized(o, cx), args)

\* update(), after its UPDATE: this.data = [update]
UpdateDone(o, datum, query, q) ==
    IF q.threw THEN Out(o, q.cx, "zero", Rows(<<>>), FALSE)
    ELSE Out(SetData([o EXCEPT !.last = <<[query |-> query, response |-> q.response]>>],
                     Arr(<<[k \in {k \in DOMAIN datum : Truthy(datum[k])} |-> datum[k]]>>)),
             q.cx, "response", q.response, FALSE)

\* update(), from buildUpdateQuery on
UpdateQuery(o, cx, datum, query) ==
    IF Len(query) = 0 THEN Out(o, cx, "zero", Rows(<<>>), FALSE)
    ELSE UpdateDone(o, datum, query[1], Query(o, cx, query[1]))

\* update(), after the read it makes when the instance has not read
UpdateRead(r, datum) ==
    IF r.threw THEN r
    ELSE IF Len(datum) = 0 THEN Out(r.o, r.cx, "zero", Rows(<<>>), FALSE)
    ELSE UpdateQuery(r.o, r.cx, datum[1],
                     buildUpdateQuery(r.o.table, datum[1], GetProperties(r.o),
                                      GetId(r.o), r.o.key, r.o.all))

\* update(), after initialization
UpdateInitialized(i, datum) ==
    IF i.threw THEN i
    ELSE IF ~i.o.read THEN UpdateRead(read(i.o, i.cx), datum)
    ELSE UpdateRead(i, datum)

\* update(datum); datum is <<>> when the caller passes none
update(o, cx, datum) == UpdateInitialized(EnsureInitialized(o, cx), datum)

\* destroy(), after its DELETE
DestroyDone(o, query, q) ==
    IF q.threw THEN Out(o, q.cx, "zero", Rows(<<>>), FALSE)
    ELSE Out([o EXCEPT !.last = <<[query |-> query, response |-> q.response]>>],
             q.cx, "one", Rows(<<>>), FALSE)

\* destroy(), from its query on
DestroyQuery(o, cx, query) == DestroyDone(o, query, Query(o, cx, query))

\* destroy(), after initialization
DestroyInitialized(i) ==
    IF i.threw THEN i
    ELSE DestroyQuery(i.o, i.cx, buildDeleteQuery(i.o.table, GetId(i.o)))

\* destroy()
destroy(o, cx) == DestroyInitialized(EnsureInitialized(o, cx))

\* readOrCreate(), after create
ReadOrCreateCreated(c) == IF c.threw THEN c ELSE read(c.o, c.cx)

\* readOrCreate(), after its first read
ReadOrCreateRead(response, datum) ==
    IF response.threw \/ ~Falsy(response.ret) THEN response
    ELSE ReadOrCreateCreated(create(response.o, response.cx, datum))

\* readOrCreate(datum)
readOrCreate(o, cx, datum) == ReadOrCreateRead(read(o, cx), datum)

----------------------------------------------------------------------------
(* cacheFetch (mysql-extensions.js).  The body of the HTTP response is     *)
(* kept by name: "one" is the number 1, "obj" the object {a: 1}; a GET     *)
(* that fails is [ok |-> FALSE].  cacheFetch yields [o, cx, ret, threw,    *)
(* gets]: gets counts the HTTP GETs it issued.                             *)

\* JSON.stringify(data).replace(/\\[rn]/g, '').replace(/\\"/g, '\\\"').trim()
Stringify(data) == IF data = "one" THEN "1" ELSE "{\"a\":1}"

\* JSON.parse(value.replace(/\\"/g, '"').trim()): <<>> when it raises
Parse(value) ==
    CASE value = "1" -> <<"one">>
      [] value = "{\"a\":1}" -> <<"obj">>
      [] OTHER -> <<>>

\* record.value and record.length, of what read() returned: a row array has
\* no property named value
RecordValue(ret) == Undefined
RecordLength(ret) == IF ret.kind = "rows" THEN Len(ret.response.rows) ELSE 0

\* !record || record.length === 0 || !record.value || record.value === "{}"
CacheMiss(ret) ==
    \/ Falsy(ret)
    \/ RecordLength(ret) = 0
    \/ ~Truthy(RecordValue(ret))
    \/ RecordValue(ret) = "{}"

CacheOut(r, kind, rows, threw, gets) ==
    [o |-> r.o, cx |-> r.cx, ret |-> [kind |-> kind, response |-> Rows(rows)],
     threw |-> threw, gets |-> gets]

\* the last two lines: parse cache.datum.value, add cache.datum.guid
CacheParsed(r, gets) ==
    IF r.threw \/ Get(GetDatum(r.o), "value") \in {Undefined, Null}
       \/ Len(Parse(Get(GetDatum(r.o), "value"))) = 0
    THEN CacheOut(r, "undefined", <<>>, TRUE, gets)
    ELSE CacheOut(r, "object",
                  <<[data |-> Parse(Get(GetDatum(r.o), "value"))[1],
                     guid |-> Get(GetDatum(r.o), "guid")]>>,
                  FALSE, gets)

\* cacheFetch, after cache.read()
CacheRead(record, ref, body) ==
    IF record.threw THEN CacheOut(record, "undefined", <<>>, TRUE, 0)
    ELSE IF CacheMiss(record.ret)
    THEN IF ~body.ok THEN CacheOut(record, "undefined", <<>>, TRUE, 1)
         ELSE CacheParsed(create(record.o, record.cx,
                                 <<[ref |-> ref, value |-> Stringify(body.data),
                                    safe |-> False]>>),
                          1)
    ELSE CacheParsed(record, 0)

\* cacheFetch(ref, url), the GET of url answering body
cacheFetch(cx, ref, body) ==
    CacheRead(read(Constructor([table |-> "cache", key |-> "ref", id |-> ref,
                                datum |-> <<[ref |-> ref]>>]),
                   cx),
              ref, body)

----------------------------------------------------------------------------
(* The inputs tried *)

Instances == {1, 2}

\* the tables a behaviour may start from
Widgets2 == [name |-> "widgets", order |-> <<"guid", "name">>,
             cols |-> [guid |-> "varchar", name |-> "varchar"],
             rows |-> <<>>, nextId |-> 1]
Widgets3 == [name |-> "widgets", order |-> <<"id", "guid", "name">>,
             cols |-> [id |-> "int", guid |-> "varchar", name |-> "varchar"],
             rows |-> <<>>, nextId |-> 1]

\* a table with the row (guid g1, name a) stored
Stored(d) ==
    [d EXCEPT !.rows = <<[c \in DOMAIN d.cols |->
                            CASE c = "id" -> Num(1)
                              [] c = "guid" -> "g1"
                              [] OTHER -> "a"]>>,
              !.nextId = 2]

\* a table with a column of type date
WidgetsDated == [name |-> "widgets", order |-> <<"guid", "name", "made">>,
                 cols |-> [guid |-> "varchar", name |-> "varchar", made |-> "date"],
                 rows |-> <<>>, nextId |-> 1]

Tables == {Widgets2, Widgets3, Stored(Widgets3), WidgetsDated}

\* the configuration bags given to the constructor
Bags ==
    {[table |-> "widgets"],
     [table |-> "widgets", id |-> "g1"],
     [table |-> "widgets", key |-> "id", id |-> Num(1)],
     [table |-> "widgets", datum |-> <<[guid |-> "g1"]>>, id |-> "g2"],
     [table |-> "widgets", data |-> Arr(<<[guid |-> "g1", name |-> "a"]>>)],
     [table |-> "widgets", data |-> Arr(<<>>), id |-> "g1"],
     [table |-> "widgets", data |-> NotArr, datum |-> <<>>],
     [table |-> "widgets", all |-> TRUE],
     [table |-> "gadgets"]}

\* the rows given to create, update and readOrCreate; <<>> is no argument
Fields ==
    {<<>>, <<EmptyRow>>, <<[name |-> "a"]>>, <<[name |-> "b", guid |-> "g1"]>>,
     <<[name |-> "", zzz |-> "x"]>>}

\* the values assigned to data, datum, id and key from outside
DataValues == {Arr(<<>>), Arr(<<[guid |-> "g1", name |-> "b"]>>), NotArr}
DatumValues == {<<>>, <<[guid |-> "g2"]>>}
IdValues == {Null, "g1", Num(1)}
KeyValues == {"guid", "id"}

\* the sets of statements of a call (by ordinal) that the environment may
\* fail, for a call that hands over n statements when none fails: none, or
\* any single one.  A healthy environment fails none.
Failures(faulty, n) == IF faulty THEN {{}} \cup {{k} : k \in 1..n} ELSE {{}}

NoCall == [op |-> "none", args |-> <<>>, F |-> {}, pre |-> <<>>,
           ret |-> [kind |-> "undefined", response |-> Rows(<<>>)],
           threw |-> FALSE, log |-> <<>>, created |-> 0, ended |-> 0]

----------------------------------------------------------------------------
(* One instance, one call at a time.  Spec runs the calls against a server *)
(* that fails no statement of its own accord (it still rejects statements  *)
(* that name an unknown column or are malformed); SpecFaulty lets the      *)
(* environment fail any one statement of a call.                           *)

InitObject ==
    /\ db \in Tables
    /\ obj \in [Instances -> {Constructor(b) : b \in Bags}]
    /\ obj[2] = Constructor([table |-> "widgets"])
    /\ call = NoCall
    /\ stats = [created |-> 0, ended |-> 0, schema |-> 0]
    /\ ops = 0

\* calls a behaviour may make
Budget(faulty) == IF faulty THEN MaxFaultyOps ELSE MaxOps

\* the pools and schema queries of a call, added to the totals
Tally(out) ==
    stats' = [created |-> stats.created + out.cx.created,
              ended |-> stats.ended + out.cx.ended,
              schema |-> stats.schema +
                 Cardinality({k \in 1..Len(out.cx.log) :
                                 out.cx.log[k].stmt.op = "schema"})]

\* the call `op(args)` of instance i ended as `out`; call.pre keeps the
\* instance and the table as they were when the call began
Finish(i, op, args, out) ==
    /\ Len(out.cx.db.rows) <= MaxRows
    /\ obj' = [obj EXCEPT ![i] = out.o]
    /\ db' = out.cx.db
    /\ call' = [op |-> op, args |-> args, F |-> out.cx.F,
                pre |-> <<[o |-> obj[i], db |-> db]>>,
                ret |-> out.ret, threw |-> out.threw, log |-> out.cx.log,
                created |-> out.cx.created, ended |-> out.cx.ended]
    /\ Tally(out)
    /\ ops' = ops + 1

Initialize(i, faulty) ==
    /\ ops < Budget(faulty)
    /\ \E F \in Failures(faulty, initialize(obj[i], Context(db, {})).cx.n) :
        Finish(i, "initialize", <<>>, initialize(obj[i], Context(db, F)))

Create(i, faulty) ==
    /\ ops < Budget(faulty)
    /\ \E args \in Fields :
        \E F \in Failures(faulty, create(obj[i], Context(db, {}), args).cx.n) :
            Finish(i, "create", args, create(obj[i], Context(db, F), args))

Read(i, faulty) ==
    /\ ops < Budget(faulty)
    /\ \E F \in Failures(faulty, read(obj[i], Context(db, {})).cx.n) :
        Finish(i, "read", <<>>, read(obj[i], Context(db, F)))

Update(i, faulty) ==
    /\ ops < Budget(faulty)
    /\ \E datum \in Fields :
        \E F \in Failures(faulty, update(obj[i], Context(db, {}), datum).cx.n) :
            Finish(i, "update", datum, update(obj[i], Context(db, F), datum))

Destroy(i, faulty) ==
    /\ ops < Budget(faulty)
    /\ \E F \in Failures(faulty, destroy(obj[i], Context(db, {})).cx.n) :
        Finish(i, "destroy", <<>>, destroy(obj[i], Context(db, F)))

ReadOrCreate(i, faulty) ==
    /\ ops < Budget(faulty)
    /\ \E datum \in Fields :
        \E F \in Failures(faulty, readOrCreate(obj[i], Context(db, {}), datum).cx.n) :
            Finish(i, "readOrCreate", datum, readOrCreate(obj[i], Context(db, F), datum))

\* obj.data = value, obj.datum = value, obj.id = value, obj.key = value
Assign(i, o, faulty) ==
    /\ ops < Budget(faulty)
    /\ obj' = [obj EXCEPT ![i] = o]
    /\ call' = NoCall
    /\ ops' = ops + 1
    /\ UNCHANGED <<db, stats>>

AssignData(i, faulty) ==
    \E value \in DataValues : Assign(i, SetData(obj[i], value), faulty)

AssignDatum(i, faulty) ==
    \E value \in DatumValues :
        Assign(i, [SetDatum(obj[i], value) EXCEPT !.override = TRUE], faulty)

AssignId(i, faulty) ==
    \E value \in IdValues : Assign(i, SetId(obj[i], value), faulty)

AssignKey(i, faulty) ==
    \E value \in KeyValues : Assign(i, SetKey(obj[i], value), faulty)

Idle == UNCHANGED <<pc, resp, retry, web>>

Calls(faulty) ==
    \/ Initialize(1, faulty) /\ Idle
    \/ Create(1, faulty) /\ Idle
    \/ Read(1, faulty) /\ Idle
    \/ Update(1, faulty) /\ Idle
    \/ Destroy(1, faulty) /\ Idle
    \/ ReadOrCreate(1, faulty) /\ Idle
    \/ AssignData(1, faulty) /\ Idle
    \/ AssignDatum(1, faulty) /\ Idle
    \/ AssignId(1, faulty) /\ Idle
    \/ AssignKey(1, faulty) /\ Idle

Next == Calls(FALSE)

NextFaulty == Calls(TRUE)

NoRace ==
    /\ pc = [i \in Instances |-> "idle"]
    /\ resp = [i \in Instances |-> [datum |-> <<>>, first |-> NoCall.ret, inserted |-> FALSE]]

NoRetry ==
    retry = [pc |-> "idle", query |-> PropertiesQuery(Null), retries |-> 0, attempt |-> 0,
             lastError |-> Null, trace |-> <<>>, result |-> <<>>, error |-> <<>>]

NoWeb == web = [gets |-> 0, last |-> 0]

Init == InitObject /\ NoRace /\ NoRetry /\ NoWeb

Spec == Init /\ [][Next]_vars

SpecFaulty == Init /\ [][NextFaulty]_vars

----------------------------------------------------------------------------
(* Properties of one instance (specification Spec) *)

\* the statements of the most recent call that are not the schema query
DataStatements == {k \in 1..Len(call.log) : call.log[k].stmt.op # "schema"}

\* C1: readOrCreate({name: "a"}) on an instance keyed on guid, bound to an
\* empty table with the columns guid and name: the call does not raise, the
\* table then holds exactly one row, and the call returns exactly that row,
\* whose name is "a".
C1_ReadOrCreateScenario ==
    (/\ call.op = "readOrCreate"
     /\ call.args = <<[name |-> "a"]>>
     /\ call.F = {}
     /\ call.pre[1].db = Widgets2
     /\ call.pre[1].o = Constructor([table |-> "widgets"]))
    => /\ ~call.threw
       /\ Len(db.rows) = 1
       /\ call.ret.kind = "rows"
       /\ call.ret.response.rows = db.rows
       /\ db.rows[1].name = "a"

\* C2: over the calls made on one instance the schema query is issued at
\* most once.
C2_SchemaQueriedAtMostOnce == stats.schema <= 1

\* C3: whenever create, read, update or destroy hands a data statement to
\* the executor, the property map is loaded and the initialized flag is true.
C3_InitializedBeforeDataStatement ==
    \A k \in DataStatements : call.log[k].loaded /\ call.log[k].initialized

\* C4: every statement handed to the executor creates one pool, and every
\* pool created has been ended when the call completes, whether the
\* statement succeeded or failed.
C4_NoPoolLeaked ==
    /\ call.created = Len(call.log)
    /\ call.created = call.ended
    /\ stats.created = stats.ended

\* C6: create, update and destroy never raise; on every failure they return
\* a falsy value.
C6_MutatorsNeverRaise ==
    call.op \in {"create", "update", "destroy"} => ~call.threw

\* C9: id equals datum[key] when datum has a value for key, and the
\* explicitly set identifier otherwise.
C9_IdDerivedFromDatum ==
    \A i \in Instances :
        GetId(obj[i]) = IF Truthy(Get(GetDatum(obj[i]), obj[i].key))
                        THEN Get(GetDatum(obj[i]), obj[i].key)
                        ELSE obj[i].id

\* data[0] as an optional row
DataFirst(o) == IF Len(GetData(o)) > 0 THEN <<GetData(o)[1]>> ELSE <<>>

\* C10 as stated: while datum has not been assigned from outside since data
\* was last assigned an array, datum is data[0].
C10_DatumIsFirstOfData ==
    \A i \in Instances : ~obj[i].override => <<GetDatum(obj[i])>> = DataFirst(obj[i])

\* C10 amended: while datum has not been assigned from outside since data was
\* last assigned an array, datum is data[0] when data holds a row, and reads
\* as the empty row when data is empty.
C10_DatumIsFirstOfDataOrEmpty ==
    \A i \in Instances :
        ~obj[i].override =>
            GetDatum(obj[i]) = IF Len(GetData(obj[i])) > 0
                               THEN GetData(obj[i])[1] ELSE EmptyRow

\* a create, read or update has assigned data and datum still follows it
C10_Witness ==
    /\ call.op \in {"create", "read", "update"}
    /\ ~obj[1].override
    /\ call.pre[1].o.data # obj[1].data
    /\ GetDatum(obj[1]) = [name |-> "a"]

----------------------------------------------------------------------------
(* read, update, destroy and create: effects of one call *)

\* the instance as the last call found it, and the SELECT that a read of it
\* builds
Before == call.pre[1].o
SelectOf(o) == buildSelectQuery(o.table, GetProperties(o), GetId(o), o.key, o.all, NoArgs)

\* C11: a read that fetches no row returns 0, records the query and the
\* empty row set as last, and leaves data, datum, id, key and the read flag
\* as they were; a read that fetches rows sets data to them, datum to the
\* first of them and the read flag to true.
C11_ReadEffects ==
    (call.op = "read" /\ ~call.threw) =>
        /\ call.ret.kind \in {"zero", "rows"}
        /\ obj[1].last = <<[query |-> call.log[Len(call.log)].stmt,
                            response |-> call.ret.response]>>
        /\ call.ret.kind = "zero" =>
            /\ Len(call.ret.response.rows) = 0
            /\ obj[1].data = Before.data /\ obj[1].datum = Before.datum
            /\ GetData(obj[1]) = GetData(Before) /\ GetDatum(obj[1]) = GetDatum(Before)
            /\ obj[1].id = Before.id /\ GetId(obj[1]) = GetId(Before)
            /\ obj[1].key = Before.key
            /\ obj[1].read = Before.read
        /\ call.ret.kind = "rows" =>
            /\ Len(call.ret.response.rows) > 0
            /\ GetData(obj[1]) = call.ret.response.rows
            /\ GetDatum(obj[1]) = call.ret.response.rows[1]
            /\ obj[1].read

\* a read fetched no row for an instance that held a row
C11_Witness ==
    /\ call.op = "read" /\ ~call.threw /\ call.ret.kind = "zero"
    /\ GetData(Before) = <<[guid |-> "g1", name |-> "a"]>>
    /\ GetData(obj[1]) = GetData(Before)

\* the last statement of the call, and the statements of a kind that the
\* server executed
LastEntry == call.log[Len(call.log)]
Executed(op) == {k \in 1..Len(call.log) : call.log[k].stmt.op = op /\ call.log[k].ok}

\* C17: destroy deletes by the column guid compared with the id the instance
\* has, whatever its key; it returns 1 when the DELETE executes and 0 when
\* the executor fails.
C17_DestroyByGuid ==
    call.op = "destroy" =>
        /\ ~call.threw
        /\ LastEntry.stmt.op = "delete"
        /\ LastEntry.stmt.where = <<[key |-> "guid", lit |-> Str(GetId(Before))]>>
        /\ call.ret.kind = IF LastEntry.ok THEN "one" ELSE "zero"

\* C18: when the INSERT of create succeeds, key becomes the name of the
\* auto-increment column, the identifier becomes the insert id and the row
\* is read again from the table: when create returns the insert response,
\* datum is the stored row just inserted and id is the insert id.
C18_CreateRefreshes ==
    (call.op = "create" /\ Executed("insert") # {}) =>
        /\ AutoId(db) /\ obj[1].key = "id"
        /\ \E k \in Executed("select") : \A n \in Executed("insert") : n < k
        /\ call.ret.kind = "response" =>
            /\ obj[1].id = call.ret.response.insertId
            /\ GetId(obj[1]) = call.ret.response.insertId
            /\ Len(db.rows) = Len(call.pre[1].db.rows) + 1
            /\ GetDatum(obj[1]) = db.rows[Len(db.rows)]

\* the keys of a row that buildUpdateQuery is said to keep
Settable(row, properties) ==
    {k \in DOMAIN row : /\ k \in DOMAIN properties
                        /\ row[k] \notin {Null, Undefined, "null", "undefined"}}

\* the fields of an update that give a SET list, under the properties the
\* instance holds
SetList(fields) ==
    IF Len(fields) = 0 THEN {}
    ELSE {k \in Settable(fields[1], GetProperties(obj[1])) : ~Underscored(k)}

\* C19: update with absent fields, empty fields or fields that give no
\* settable column returns 0 and executes no UPDATE; an update that succeeds
\* records the query and the response as last and sets datum to the fields
\* it kept, without reading the table again.
C19_UpdateEffects ==
    call.op = "update" =>
        /\ SetList(call.args) = {} =>
            /\ ~call.threw /\ call.ret.kind = "zero"
            /\ \A k \in 1..Len(call.log) : call.log[k].stmt.op # "update"
        /\ Executed("update") # {} =>
            /\ Executed("update") = {Len(call.log)}
            /\ call.ret.kind = "response"
            /\ obj[1].last = <<[query |-> LastEntry.stmt, response |-> call.ret.response]>>
            /\ GetDatum(obj[1]) =
                    [k \in {k \in DOMAIN call.args[1] : Truthy(call.args[1][k])} |->
                        call.args[1][k]]

\* C20: loading the properties of a table raises whenever the metadata
\* query fails and whenever the table does not exist; it never gives an empty
\* property map for a table that does not exist.
C20_AbsentTableRaises ==
    (call.op = "initialize" /\ (~LastEntry.ok \/ Before.table # call.pre[1].db.name)) =>
        /\ call.threw
        /\ obj[1].properties = Before.properties

\* C23: a create that returns a failure sentinel (0 or undefined) inserted
\* no row: its INSERT, if it handed one over, did not execute and the table
\* holds the rows it held before.
C23_FailureMeansNoInsert ==
    (call.op = "create" /\ ~call.threw /\ Falsy(call.ret)) =>
        /\ Executed("insert") = {}
        /\ db.rows = call.pre[1].db.rows

\* the fields of the update set the column that is the instance's key
SetsKey == Truthy(Get(call.args[1], LastEntry.key))

\* C24: an update that succeeds and does not set the key column leaves the
\* identifier as it was: id after the call is the id the UPDATE was built
\* with, and the id the instance had when the call began.
C24_UpdateKeepsId ==
    (call.op = "update" /\ Executed("update") # {} /\ ~SetsKey) =>
        /\ GetId(obj[1]) = LastEntry.id
        /\ Before.read => GetId(obj[1]) = GetId(Before)

\* C25: after an update that succeeds the current Row holds exactly the
\* columns and values of the SET list of the UPDATE that executed.
C25_RowIsSetList ==
    (call.op = "update" /\ Executed("update") # {}) =>
        GetDatum(obj[1]) = LastEntry.stmt.row

\* C27: a create that builds no INSERT (it returns 0) hands no data
\* statement to the executor and leaves data, datum, key and id as they were.
C27_NoInsertNoEffect ==
    (call.op = "create" /\ ~call.threw /\ call.ret.kind = "zero") =>
        /\ \A k \in 1..Len(call.log) : call.log[k].stmt.op = "schema"
        /\ GetData(obj[1]) = GetData(Before)
        /\ GetDatum(obj[1]) = GetDatum(Before)
        /\ obj[1].key = Before.key
        /\ GetId(obj[1]) = GetId(Before)

----------------------------------------------------------------------------
(* The query builders on their own (specification SpecBuild): each step    *)
(* calls one builder with arguments drawn from the sets below and keeps    *)
(* the call in `call`: args holds the arguments, ret is <<statement>> or   *)
(* <<>> for null, threw tells that the builder raised.                     *)

Schemas ==
    {EmptyRow,
     [guid |-> "varchar", name |-> "varchar"],
     [id |-> "int", guid |-> "varchar", name |-> "varchar"],
     [guid |-> "varchar", name |-> "varchar", made |-> "date"],
     [guid |-> "varchar", at |-> "datetime"],
     [name |-> "varchar", _tmp |-> "varchar"]}

BuildRows ==
    {EmptyRow, [name |-> "a"], [name |-> ""], [name |-> Null], [name |-> Undefined],
     [name |-> "null"], [name |-> "undefined"], [name |-> Num(0)],
     [name |-> "a", guid |-> "g1"], [name |-> "a", zzz |-> "x"], [zzz |-> "x"],
     [_tmp |-> "x"], [constructor |-> "x"], [name |-> Null, guid |-> "g1"]}

BuildArgs ==
    {NoArgs, Where(<<>>), Where(<<[key |-> "name", lit |-> "a"]>>),
     Where(<<[key |-> "name", lit |-> "a"], [key |-> "guid", lit |-> "g1"]>>)}

\* no builder has been called yet
InitBuild ==
    /\ db = Widgets2
    /\ obj = [i \in Instances |-> Constructor([table |-> "widgets"])]
    /\ call = NoCall
    /\ stats = [created |-> 0, ended |-> 0, schema |-> 0]
    /\ ops = 0
    /\ NoRace /\ NoRetry /\ NoWeb

\* a builder has been called: nothing but `call` and the count changes
Built ==
    /\ ops < MaxOps
    /\ ops' = ops + 1
    /\ UNCHANGED <<obj, db, stats, pc, resp, retry, web>>

BuildSelect ==
    \E properties \in Schemas, id \in IdValues, key \in KeyValues, all \in BOOLEAN,
       args \in BuildArgs :
        /\ call' = [op |-> "buildSelectQuery",
                    args |-> <<[properties |-> properties, id |-> id, key |-> key,
                                all |-> all, where |-> args.where]>>,
                    F |-> {}, pre |-> <<>>,
                    ret |-> buildSelectQuery("widgets", properties, id, key, all, args).stmt,
                    threw |-> buildSelectQuery("widgets", properties, id, key, all, args).threw,
                    log |-> <<>>, created |-> 0, ended |-> 0]
        /\ Built

BuildInsert ==
    \E data \in BuildRows, properties \in Schemas, safe \in BOOLEAN :
        /\ call' = [op |-> "buildInsertQuery",
                    args |-> <<[data |-> data, properties |-> properties, safe |-> safe]>>,
                    F |-> {}, pre |-> <<>>,
                    ret |-> buildInsertQuery("widgets", data, properties, safe),
                    threw |-> FALSE, log |-> <<>>, created |-> 0, ended |-> 0]
        /\ Built

BuildUpdate ==
    \E datum \in BuildRows, properties \in Schemas, id \in IdValues, key \in KeyValues,
       all \in BOOLEAN :
        /\ call' = [op |-> "buildUpdateQuery",
                    args |-> <<[datum |-> datum, properties |-> properties, id |-> id,
                                key |-> key, all |-> all]>>,
                    F |-> {}, pre |-> <<>>,
                    ret |-> buildUpdateQuery("widgets", datum, properties, id, key, all),
                    threw |-> FALSE, log |-> <<>>, created |-> 0, ended |-> 0]
        /\ Built

BuildDelete ==
    \E id \in IdValues :
        /\ call' = [op |-> "buildDeleteQuery", args |-> <<[id |-> id]>>,
                    F |-> {}, pre |-> <<>>,
                    ret |-> <<buildDeleteQuery("widgets", id)>>,
                    threw |-> FALSE, log |-> <<>>, created |-> 0, ended |-> 0]
        /\ Built

NextBuild == BuildSelect \/ BuildInsert \/ BuildUpdate \/ BuildDelete

SpecBuild == InitBuild /\ [][NextBuild]_vars

\* the arguments of the builder call
Given == call.args[1]

\* C12: buildSelectQuery returns the text of a statement for every schema,
\* those with date or datetime columns included: it neither raises nor
\* returns null.
C12_SelectAlwaysText ==
    call.op = "buildSelectQuery" => ~call.threw /\ Len(call.ret) = 1

\* C13: with no where option the filter depends on all alone: every SELECT
\* that read hands over and every UPDATE that update hands over has no WHERE
\* clause when the instance's all is true, and exactly WHERE <key> = "<id>",
\* with the key and id the instance has at that time, when it is false.
C13_FilterFollowsAll ==
    \A k \in 1..Len(call.log) :
        call.log[k].stmt.op \in {"select", "update"} =>
            /\ ~call.log[k].stmt.bad
            /\ call.log[k].stmt.where =
                    IF call.log[k].all THEN <<>>
                    ELSE <<[key |-> call.log[k].key, lit |-> Str(call.log[k].id)]>>

\* an update of an instance whose all is true has changed a stored row, and
\* a read of an instance keyed on id has fetched one
C13_Witness ==
    /\ call.op = "update" /\ Before.all /\ Len(call.log) = 4
    /\ call.log[4].stmt.op = "update" /\ call.log[4].ok
    /\ call.log[4].stmt.where = <<>>
    /\ call.log[3].stmt.op = "select" /\ call.log[3].stmt.where = <<>>
    /\ Len(db.rows) = 1 /\ db.rows # call.pre[1].db.rows

\* C14: when the where option is given, the SELECT filters by a WHERE clause
\* made of the given conditions and carries no filter on key and id,
\* whatever all is.
C14_WhereOptionFilters ==
    (call.op = "buildSelectQuery" /\ Len(Given.where) > 0 /\ ~call.threw) =>
        /\ Len(call.ret) = 1
        /\ call.ret[1].where = Given.where[1]
        /\ ~call.ret[1].bad

\* the keys of a row that are columns of the schema with a truthy value
KnownTruthy(row, properties) ==
    {k \in DOMAIN row : k \in DOMAIN properties /\ Truthy(row[k])}

\* C15: buildInsertQuery returns null if and only if no key of the row is
\* both a column of the schema and mapped to a truthy value.
C15_InsertNullIff ==
    call.op = "buildInsertQuery" =>
        (Len(call.ret) = 0 <=> KnownTruthy(Given.data, Given.properties) = {})

\* C16 as stated: the SET list of buildUpdateQuery holds no key whose value
\* is null, undefined, "null" or "undefined" and no key outside the schema,
\* and the result is null exactly when no key is left by that filter.
C16_UpdateSetList ==
    call.op = "buildUpdateQuery" =>
        /\ Len(call.ret) = 1 => DOMAIN call.ret[1].row \subseteq Settable(Given.datum, Given.properties)
        /\ Len(call.ret) = 0 <=> Settable(Given.datum, Given.properties) = {}

\* C16 with the keys that start with '_' set apart: the SET list holds
\* exactly the keys of the schema whose value is none of null, undefined,
\* "null", "undefined" and whose name does not start with '_'; the result is
\* null exactly when there is no such key.
C16_UpdateSetListNoMarker ==
    call.op = "buildUpdateQuery" =>
        /\ Len(call.ret) = 1 =>
            DOMAIN call.ret[1].row =
                {k \in Settable(Given.datum, Given.properties) : ~Underscored(k)}
        /\ Len(call.ret) = 0 <=>
            {k \in Settable(Given.datum, Given.properties) : ~Underscored(k)} = {}

\* a row with a null value and a settable one gave a SET list of the latter
C16_Witness ==
    /\ call.op = "buildUpdateQuery"
    /\ Given.datum = [name |-> Null, guid |-> "g1"]
    /\ Len(call.ret) = 1 /\ DOMAIN call.ret[1].row = {"guid"}

----------------------------------------------------------------------------
(* executeQueryWithRetry (specification SpecRetry): one call, one pass of  *)
(* its loop per step.  The environment lets each execute succeed or fails  *)
(* it with one of Errors; the server rejects a statement it cannot run.    *)

Errors == {"ECONNRESET", "ETIMEDOUT"}

RetryQueries ==
    {buildSelectQuery("widgets", EmptyRow, Null, "guid", TRUE, NoArgs).stmt[1],
     buildSelectQuery("widgets", EmptyRow, "g1", "zzz", FALSE, NoArgs).stmt[1],
     Stmt("insert", "widgets", [name |-> "a"], <<>>, FALSE)}

RetryArgs == {<<>>} \cup {<<n>> : n \in (0 - 1)..MaxRetries}

RetryCall ==
    /\ retry.pc = "idle"
    /\ \E query \in RetryQueries, retries \in RetryArgs :
        retry' = RetryEnter(query, retries)
    /\ UNCHANGED <<obj, db, call, stats, ops, pc, resp, web>>

\* the pass ended as q, with the message of the error if it raised
RetryAttempted(q, message) ==
    /\ retry' = RetryPass(retry, q, message)
    /\ db' = q.cx.db
    /\ stats' = [stats EXCEPT !.created = @ + q.cx.created, !.ended = @ + q.cx.ended]
    /\ UNCHANGED <<obj, call, ops, pc, resp, web>>

RetryAttempt ==
    /\ retry.pc = "loop"
    /\ RetryTest(retry)
    /\ \/ RetryAttempted(queryPromise(Context(db, {}), retry.query), "ER_REJECTED")
       \/ \E e \in Errors :
            RetryAttempted(queryPromise(Context(db, {1}), retry.query), e)

RetryExit ==
    /\ retry.pc = "loop"
    /\ ~RetryTest(retry)
    /\ retry' = RetryFallThrough(retry)
    /\ UNCHANGED <<obj, db, call, stats, ops, pc, resp, web>>

NextRetry == RetryCall \/ RetryAttempt \/ RetryExit

SpecRetry == Init /\ [][NextRetry]_vars

\* C5: executeWithRetry(statement, retries = n) with n >= 1 executes at most
\* n times; when it returns, the last execute is the first that succeeded and
\* its result is returned; when it raises, it has executed exactly n times,
\* all failed, and the error carries n and the last error.
C5_RetryContract ==
    (retry.pc # "idle" /\ retry.retries >= 1) =>
        /\ stats.created = Len(retry.trace)
        /\ Len(retry.trace) <= retry.retries
        /\ \A k \in 1..(Len(retry.trace) - 1) : ~retry.trace[k].ok
        /\ retry.pc = "loop" =>
            /\ Len(retry.trace) < retry.retries
            /\ \A k \in 1..Len(retry.trace) : ~retry.trace[k].ok
        /\ retry.pc = "returned" =>
            /\ Len(retry.trace) >= 1
            /\ retry.trace[Len(retry.trace)].ok
            /\ retry.result = <<retry.trace[Len(retry.trace)].response>>
        /\ retry.pc = "raised" =>
            /\ Len(retry.trace) = retry.retries
            /\ ~retry.trace[retry.retries].ok
            /\ retry.error = <<[attempts |-> retry.retries,
                                message |-> retry.trace[retry.retries].message]>>

\* two failures, then the third execute succeeds and its rows are returned
C5_Witness ==
    /\ retry.pc = "returned"
    /\ retry.retries = 3
    /\ Len(retry.trace) = 3
    /\ ~retry.trace[1].ok /\ ~retry.trace[2].ok /\ retry.trace[3].ok
    /\ retry.result = <<retry.trace[3].response>>

\* C26: for every retries value, 0 and the negative ones included, a call
\* that completes normally has executed the statement at least once and
\* returns the result of an execute that succeeded.
C26_NeverReturnsUnexecuted ==
    retry.pc = "returned" =>
        /\ Len(retry.trace) >= 1
        /\ retry.trace[Len(retry.trace)].ok
        /\ retry.result = <<retry.trace[Len(retry.trace)].response>>

----------------------------------------------------------------------------
(* Two instances running readOrCreate at once (specification SpecRace).    *)
(* readOrCreate awaits read, then create, then read: each is one step, and *)
(* the steps of the two instances interleave.                              *)

RaceBags == {[table |-> "widgets", id |-> "g1"], [table |-> "widgets"]}

RaceFields == {<<[guid |-> "g1", name |-> "a"]>>, <<[guid |-> "g1", name |-> "b"]>>}

InitRace ==
    /\ db \in {Widgets2, Widgets3}
    /\ \E b \in RaceBags : obj = [i \in Instances |-> Constructor(b)]
    /\ call = NoCall
    /\ stats = [created |-> 0, ended |-> 0, schema |-> 0]
    /\ ops = 0
    /\ NoRace /\ NoRetry /\ NoWeb

\* the INSERT of a create was accepted
Inserted(out) ==
    \E k \in 1..Len(out.cx.log) : out.cx.log[k].stmt.op = "insert" /\ out.cx.log[k].ok

\* a step of instance i's readOrCreate ended as out
Stepped(i, out, to) ==
    /\ Len(out.cx.db.rows) <= MaxRows
    /\ obj' = [obj EXCEPT ![i] = out.o]
    /\ db' = out.cx.db
    /\ pc' = [pc EXCEPT ![i] = IF out.threw THEN "raised" ELSE to]
    /\ Tally(out)
    /\ UNCHANGED <<call, ops, retry, web>>

\* const response = await this.read()
RaceRead(i, datum, out) ==
    /\ Stepped(i, out, IF Falsy(out.ret) THEN "absent" ELSE "done")
    /\ resp' = [resp EXCEPT ![i] = [datum |-> datum, first |-> out.ret, inserted |-> FALSE]]

RaceStart(i) ==
    /\ pc[i] = "idle"
    /\ \E datum \in RaceFields : RaceRead(i, datum, read(obj[i], Context(db, {})))

\* await this.create(datum)
RaceCreated(i, out) ==
    /\ Stepped(i, out, "created")
    /\ resp' = [resp EXCEPT ![i].inserted = Inserted(out)]

RaceCreate(i) ==
    /\ pc[i] = "absent"
    /\ RaceCreated(i, create(obj[i], Context(db, {}), resp[i].datum))

\* return await this.read()
RaceReread(i) ==
    /\ pc[i] = "created"
    /\ Stepped(i, read(obj[i], Context(db, {})), "done")
    /\ UNCHANGED resp

NextRace == \E i \in Instances : RaceStart(i) \/ RaceCreate(i) \/ RaceReread(i)

SpecRace == InitRace /\ [][NextRace]_vars

\* the rows stored for the identifier g
RowsFor(g) == {k \in 1..Len(db.rows) : db.rows[k].guid = g}

\* C8: when two instances running readOrCreate for the same absent
\* identifier have both read nothing and both had their INSERT accepted, the
\* table holds two rows for that identifier.
C8_BothInsert ==
    (\A i \in Instances : resp[i].first.kind = "zero" /\ resp[i].inserted)
        => Cardinality(RowsFor("g1")) = 2

\* both calls are over and the identifier has two rows
C8_Witness ==
    /\ \A i \in Instances : pc[i] \in {"done", "raised"} /\ resp[i].first.kind = "zero"
                            /\ resp[i].inserted
    /\ Cardinality(RowsFor("g1")) = 2

----------------------------------------------------------------------------
(* cacheFetch (specification SpecCache): one call per step, over a table   *)
(* cache that is empty or holds a row for the ref r1.                      *)

Cache == [name |-> "cache", order |-> <<"id", "guid", "ref", "value">>,
          cols |-> [id |-> "int", guid |-> "varchar", ref |-> "varchar",
                    value |-> "text"],
          rows |-> <<>>, nextId |-> 1]

Cached == [Cache EXCEPT !.rows = <<[id |-> Num(1), guid |-> "g1", ref |-> "r1",
                                    value |-> "1"]>>,
                        !.nextId = 2]

Refs == {"r1", "r2"}

Bodies == {[ok |-> TRUE, data |-> "one"], [ok |-> TRUE, data |-> "obj"],
           [ok |-> FALSE, data |-> "one"]}

InitCache ==
    /\ db \in {Cache, Cached}
    /\ obj = [i \in Instances |-> Constructor([table |-> "cache"])]
    /\ call = NoCall
    /\ stats = [created |-> 0, ended |-> 0, schema |-> 0]
    /\ ops = 0
    /\ NoRace /\ NoRetry /\ NoWeb

CacheFetched(ref, body, out) ==
    /\ Finish(1, "cacheFetch", <<[ref |-> ref, body |-> body]>>, out)
    /\ web' = [gets |-> web.gets + out.gets, last |-> out.gets]
    /\ UNCHANGED <<pc, resp, retry>>

CacheFetch ==
    /\ ops < MaxOps
    /\ \E ref \in Refs, body \in Bodies :
        \E F \in Failures(TRUE, cacheFetch(Context(db, {}), ref, body).cx.n) :
            CacheFetched(ref, body, cacheFetch(Context(db, F), ref, body))

NextCache == CacheFetch

SpecCache == InitCache /\ [][NextCache]_vars

\* the table held a row for ref with a non-empty value when the call began
CacheHit(d, ref) ==
    \E k \in 1..Len(d.rows) : d.rows[k].ref = ref /\ Truthy(d.rows[k].value)
                              /\ d.rows[k].value # "{}"

\* C7: cacheFetch issues the HTTP GET and the INSERT only on a cache miss,
\* and calls for the same ref leave at most one cache row for it.
C7_FetchOnlyOnMiss ==
    call.op = "cacheFetch" =>
        /\ CacheHit(call.pre[1].db, call.args[1].ref) =>
            /\ web.last = 0
            /\ \A k \in 1..Len(call.log) : call.log[k].stmt.op # "insert"
        /\ \A ref \in Refs :
            Cardinality({k \in 1..Len(db.rows) : db.rows[k].ref = ref}) <= 1

----------------------------------------------------------------------------
(* Texts character by character (specification SpecText).  Where the       *)
(* characters of a value matter, a text is a sequence of one-character     *)
(* strings; Nul stands for the character U+0000.                           *)

Backslash == "\\"
SingleQuote == "'"
DoubleQuote == "\""
Nul == "NUL"

\* the characters escapeValue rewrites
Special == {Backslash, SingleQuote, DoubleQuote, Nul}

Alphabet == Special \cup {"a"}

MaxLen == 3          \* longest text handed to escapeValue
MaxCols == 3         \* most columns of an INSERT

\* text.replace(/ch/g, by)
RECURSIVE Replace(_, _, _)
Replace(text, ch, by) ==
    IF text = <<>> THEN <<>>
    ELSE (IF Head(text) = ch THEN by ELSE <<Head(text)>>) \o Replace(Tail(text), ch, by)

\* an escapeValue that would escape the backslashes last
escapeValueBackslashLast(value) ==
    Replace(Replace(Replace(Replace(value,
        SingleQuote, <<Backslash, SingleQuote>>),
        DoubleQuote, <<Backslash, DoubleQuote>>),
        Nul, <<Backslash, "0">>),
        Backslash, <<Backslash, Backslash>>)

\* escapeValue(value), for a value that is a string
escapeValue(value) ==
    Replace(Replace(Replace(Replace(value,
        Backslash, <<Backslash, Backslash>>),
        SingleQuote, <<Backslash, SingleQuote>>),
        DoubleQuote, <<Backslash, DoubleQuote>>),
        Nul, <<Backslash, "0">>)

\* list.join(sep)
RECURSIVE Join(_, _)
Join(list, sep) ==
    IF list = <<>> THEN <<>>
    ELSE IF Len(list) = 1 THEN list[1]
    ELSE list[1] \o sep \o Join(Tail(list), sep)

\* a join that would put the values one after the other inside one literal
InsertValuesConcatenated(list, safe) ==
    Join([k \in 1..Len(list) |-> IF safe THEN escapeValue(list[k]) ELSE list[k]],
         <<",", " ">>)

\* buildInsertQuery: the values, escaped when safe, joined by '", "'
InsertValues(list, safe) ==
    Join([k \in 1..Len(list) |-> IF safe THEN escapeValue(list[k]) ELSE list[k]],
         <<DoubleQuote, ",", " ", DoubleQuote>>)

\* buildInsertQuery: ... VALUES ("${values}");
ValuesClause(values) ==
    <<"(", DoubleQuote>> \o values \o <<DoubleQuote, ")">>

\* The server reading a VALUES clause: the number of string literals in it,
\* -1 when a literal is not closed.  Inside a literal a backslash takes the
\* next character with it and a doubled double quote is a double quote.
RECURSIVE Lex(_, _, _, _)
Lex(text, i, inside, n) ==
    IF i > Len(text) THEN (IF inside THEN -1 ELSE n)
    ELSE IF ~inside THEN Lex(text, i + 1, text[i] = DoubleQuote, n)
    ELSE IF text[i] = Backslash THEN Lex(text, i + 2, TRUE, n)
    ELSE IF text[i] # DoubleQuote THEN Lex(text, i + 1, TRUE, n)
    ELSE IF i < Len(text) /\ text[i + 1] = DoubleQuote THEN Lex(text, i + 2, TRUE, n)
    ELSE Lex(text, i + 1, FALSE, n + 1)

Literals(text) == Lex(text, 1, FALSE, 0)

\* the texts tried
Texts == UNION {[1..n -> Alphabet] : n \in 0..MaxLen}

\* the values of the eligible columns of a row, in the order of its keys
InsertTexts == {<<"a">>, <<DoubleQuote>>, <<"a", Backslash>>}
InsertLists == UNION {[1..n -> InsertTexts] : n \in 1..MaxCols}

\* escapeValue(value) on a fresh value
Escape ==
    \E value \in Texts :
        /\ call' = [op |-> "escapeValue", args |-> <<[value |-> value]>>,
                    F |-> {}, pre |-> <<>>, ret |-> <<escapeValue(value)>>,
                    threw |-> FALSE, log |-> <<>>, created |-> 0, ended |-> 0]
        /\ Built

\* escapeValue on what the call before returned; pre keeps that call's value
EscapeAgain ==
    /\ call.op = "escapeValue"
    /\ Len(call.pre) = 0
    /\ call' = [op |-> "escapeValue", args |-> <<[value |-> call.ret[1]]>>,
                F |-> {}, pre |-> <<call.args[1].value>>,
                ret |-> <<escapeValue(call.ret[1])>>,
                threw |-> FALSE, log |-> <<>>, created |-> 0, ended |-> 0]
    /\ Built

\* the VALUES clause buildInsertQuery writes for the eligible values `list`
InsertText ==
    \E list \in InsertLists, safe \in BOOLEAN :
        /\ call' = [op |-> "buildInsertQuery", args |-> <<[list |-> list, safe |-> safe]>>,
                    F |-> {}, pre |-> <<>>,
                    ret |-> <<ValuesClause(InsertValues(list, safe))>>,
                    threw |-> FALSE, log |-> <<>>, created |-> 0, ended |-> 0]
        /\ Built

NextText == Escape \/ EscapeAgain \/ InsertText

SpecText == InitBuild /\ [][NextText]_vars

\* C21 as stated: with several eligible columns the VALUES clause holds a
\* single value literal, not one literal per column.
C21_SingleValueLiteral ==
    (call.op = "buildInsertQuery" /\ Len(Given.list) > 1) =>
        Literals(call.ret[1]) = 1

\* C21, amended: with the values escaped (safe) the VALUES clause holds one
\* double-quoted literal per eligible column, as many literals as columns.
C21_OneLiteralPerColumn ==
    (call.op = "buildInsertQuery" /\ Given.safe) =>
        Literals(call.ret[1]) = Len(Given.list)

C21_Witness ==
    /\ call.op = "buildInsertQuery"
    /\ Given.safe
    /\ Len(Given.list) = 3
    /\ \E k \in 1..3 : Given.list[k] = <<DoubleQuote>>
    /\ Literals(call.ret[1]) = 3

\* one character after the other, ch prefixed or replaced as `nul` tells
RECURSIVE Rewritten(_, _)
Rewritten(text, nul) ==
    IF text = <<>> THEN <<>>
    ELSE (IF Head(text) = Nul THEN <<Backslash, nul>>
          ELSE IF Head(text) \in Special THEN <<Backslash, Head(text)>>
          ELSE <<Head(text)>>) \o Rewritten(Tail(text), nul)

\* the backslashes that stand immediately before position i
RECURSIVE Slashes(_, _)
Slashes(text, i) ==
    IF i > 1 /\ text[i - 1] = Backslash THEN 1 + Slashes(text, i - 1) ELSE 0

\* every double quote of text has an odd run of backslashes before it
QuotesEscaped(text) ==
    \A i \in 1..Len(text) : text[i] = DoubleQuote => Slashes(text, i) % 2 = 1

\* the call escaped what an earlier escapeValue returned for a value that
\* holds a special character
EscapedTwice ==
    /\ call.op = "escapeValue"
    /\ Len(call.pre) = 1
    /\ \E i \in 1..Len(call.pre[1]) : call.pre[1][i] \in Special

\* C22 as stated: escapeValue prefixes each backslash, single quote, double
\* quote and NUL with one backslash and leaves the rest unchanged; no double
\* quote of the output is unescaped; escaping twice differs from escaping
\* once for every value that holds one of these characters.
C22_EscapePrefixes ==
    call.op = "escapeValue" =>
        /\ call.ret[1] = Rewritten(Given.value, Nul)
        /\ QuotesEscaped(call.ret[1])
        /\ EscapedTwice => call.ret[1] # Given.value

\* C22, amended: as stated, except that a NUL is replaced by a backslash
\* and the digit 0 rather than kept behind the backslash.
C22_EscapeRewrites ==
    call.op = "escapeValue" =>
        /\ call.ret[1] = Rewritten(Given.value, "0")
        /\ QuotesEscaped(call.ret[1])
        /\ EscapedTwice => call.ret[1] # Given.value

C22_Witness ==
    /\ EscapedTwice
    /\ call.pre[1] = <<Backslash, DoubleQuote, Nul>>
    /\ call.ret[1] # Given.value

====
